---- MODULE Spec2Model ----
(***************************************************************************)
(* Borrow / return engine of the library manager.                          *)
(*                                                                         *)
(* The persistent store (tables books and borrow_transactions) is the only *)
(* shared state.  Every HTTP request is handled by a worker; a handler     *)
(* gives up control at every `await storage.xxx(...)`, so one action of    *)
(* the model is one store call together with the handler code that runs    *)
(* up to the next store call (or up to the response).  The store calls of  *)
(* the requests in flight run one at a time, in the order in which the     *)
(* handlers sent them to the database client.                              *)
(***************************************************************************)
EXTENDS Integers, Sequences, FiniteSets, TLC

(* ---------------------------- bounds ----------------------------------- *)
NumWorkers == 2          \* requests that may be in flight together
MaxReqs == 3             \* requests issued in one behaviour of Spec
MaxSeqReqs == 4          \* requests issued in one behaviour of SpecSeq
MaxOrderReqs == 3        \* requests issued in one behaviour of SpecOrder
MaxCatalogReqs == 3      \* requests issued in one behaviour of SpecCatalog
MaxEditReqs == 3         \* requests issued in one behaviour of SpecEdit
MaxRaceReqs == 4         \* requests issued in one behaviour of SpecRace
MaxNewBooks == 2         \* book rows inserted in one behaviour
MaxNow == 1              \* the clock runs over 0..MaxNow
BigCopies == 6           \* totalCopies of the many-copy book b2

(* ------------------------ program constants ---------------------------- *)
LoanLimit == 5           \* activeLoans.length >= 5

(* ------------------------------ values --------------------------------- *)
NULL == "null"           \* SQL NULL / JS null in a varchar column
Absent == "absent"       \* key not present in the request body
NoDate == -1             \* returned_at IS NULL
NoCount == -101          \* numeric key not present in the request body
BadCount == -102         \* a numeric key whose value is not a number (a JSON string, NaN)
BadDate == -2            \* a dueDate that z.coerce.date() cannot parse
MissingBook == "b9"      \* an id with no row in books

Workers == 1..NumWorkers
BookIds == {"b1", "b2"}
DueDates == 0..MaxNow

(* JWT payloads (req.user): userId, role, schoolId *)
Tokens ==
  { [userId |-> "u1", role |-> "user",        schoolId |-> "s1"],
    [userId |-> "a1", role |-> "admin",       schoolId |-> "s1"],
    [userId |-> "v1", role |-> "user",        schoolId |-> "s2"],
    [userId |-> "a2", role |-> "admin",       schoolId |-> "s2"],
    [userId |-> "g2", role |-> "super_admin", schoolId |-> "s2"],
    [userId |-> "sa", role |-> "super_admin", schoolId |-> NULL] }

NoToken == [userId |-> NULL, role |-> NULL, schoolId |-> NULL]

(* Request bodies of POST /api/transactions/borrow.  The client sends      *)
(* {bookId, dueDate, status: "active"}; the other bodies change one key.   *)
ClientBody(b, d) ==
  [bookId |-> b, dueDate |-> d, status |-> "active",
   schoolId |-> Absent, returnedAt |-> Absent]

Bodies ==
  { ClientBody(b, MaxNow) : b \in BookIds \cup {MissingBook} }
  \cup { ClientBody("b1", d) : d \in DueDates \cup {BadDate} }
  \cup { [ClientBody("b1", MaxNow) EXCEPT !.status = s] : s \in {"returned", Absent} }
  \cup { [ClientBody("b1", MaxNow) EXCEPT !.schoolId = "s2"],
         [ClientBody("b1", MaxNow) EXCEPT !.returnedAt = "2024-01-20"],
         [ClientBody("b1", MaxNow) EXCEPT !.returnedAt = NULL],
         [ClientBody("b1", MaxNow) EXCEPT !.status = NULL],
         ClientBody("b1", NoDate),
         ClientBody(Absent, MaxNow) }

NoBody == ClientBody(NULL, NoDate)

(* ids that gen_random_uuid() gives to the book rows inserted, in order *)
NewBookId == <<"b3", "b4", "b5", "b6">>

(* Request bodies of POST /api/books: title, author and category are there *)
(* whenever isbn is; the body may name a school of its own.                *)
BookBody(i, t) ==
  [isbn |-> i, totalCopies |-> t, availableCopies |-> NoCount,
   status |-> Absent, schoolId |-> Absent]

BookBodies ==
  { BookBody("i1", NoCount), BookBody("i3", NoCount), BookBody("i3", 2),
    BookBody(Absent, NoCount), BookBody(NULL, NoCount), BookBody("i3", BadCount),
    [BookBody("i3", NoCount) EXCEPT !.availableCopies = BadCount],
    [BookBody("i3", NoCount) EXCEPT !.status = NULL],
    [BookBody("i3", NoCount) EXCEPT !.schoolId = "s2"] }

(* Request bodies of PATCH /api/books/:id: every key is optional *)
PatchBody == BookBody(Absent, NoCount)

PatchBodies ==
  { PatchBody,
    [PatchBody EXCEPT !.totalCopies = 1],
    [PatchBody EXCEPT !.availableCopies = 3],
    [PatchBody EXCEPT !.availableCopies = -3],
    [PatchBody EXCEPT !.availableCopies = BadCount],
    [PatchBody EXCEPT !.status = "borrowed"],
    [PatchBody EXCEPT !.isbn = "i2"],
    [PatchBody EXCEPT !.schoolId = "s2"] }

(* Uploads of POST /api/books/import.  parse(csvContent, {columns: true,   *)
(* trim: true}) gives one record per row, every record with the keys of    *)
(* the header line and every cell a trimmed string: a cell left empty is   *)
(* "", and a key is Absent in all records when the header has no such      *)
(* column (title, author and category are there whenever isbn is).         *)
CsvRecord(i, t) == [isbn |-> i, totalCopies |-> t]

CsvFiles ==
  { <<CsvRecord("i3", Absent)>>,
    <<CsvRecord("i1", ""), CsvRecord("i3", "2.9")>>,
    <<CsvRecord("i4", "07"), CsvRecord("i4", "x")>>,
    <<CsvRecord("", "0"), CsvRecord("i4", "-2")>>,
    <<CsvRecord(Absent, "3"), CsvRecord(Absent, "10")>> }

(* a file with a row of fewer cells than the header: parse throws *)
ShortRowFile == <<CsvRecord(NULL, Absent)>>

(* no file in the request *)
NoFile == <<CsvRecord(NULL, NULL)>>

Uploads == CsvFiles \cup {ShortRowFile, NoFile}

VARIABLES
  books,     \* table books: id -> row
  txs,       \* table borrow_transactions: sequence of rows, id = index
  now,       \* the clock read by new Date() / NOW() / defaultNow()
  pc,        \* per worker: position of its handler
  actor,     \* per worker: req.user of the request in flight
  val,       \* per worker: `validated` of a borrow in flight
  tid,       \* per worker: req.params.id of a return in flight
  book,      \* per worker: the local `book` row read by the handler
  res,       \* per worker: the last response sent
  budget,    \* requests that may still be issued
  hist,      \* history of the last request, kept when requests run one at a time
  listed,    \* ids in the body of the last overdue-list response
  stamp,     \* per worker: the new Date() built when storage.returnBook was called
  vbook,     \* per worker: `validated` of a book create or edit in flight
  bid,       \* per worker: req.params.id of a book edit in flight
  rest,      \* per worker: the records of an import in flight from records[i] on
  queue      \* the workers whose next query the client holds, in the order sent

vars == <<books, txs, now, pc, actor, val, tid, book, res, budget, hist, listed, stamp,
          vbook, bid, rest, queue>>

NoBook == [schoolId |-> NULL, isbn |-> NULL, totalCopies |-> 0, availableCopies |-> 0, status |-> NULL]
NoRes == [code |-> 0, message |-> "", id |-> 0]
NoValidated == [isbn |-> NULL, totalCopies |-> NoCount, availableCopies |-> NoCount,
                status |-> NULL, schoolId |-> NULL]

(* res.status(c).json({message: m}) or res.status(c).json(row with this id) *)
Response(c, m, i) == [code |-> c, message |-> m, id |-> i]

(* ------------------------------ schema --------------------------------- *)

(* insertBorrowTransactionSchema.parse: bookId is a required string;       *)
(* dueDate is coerced to a Date, so a missing key (NoDate) or a value that *)
(* is no date fails; returnedAt is optional and must be a Date or null (a  *)
(* JSON string is not one); status is an optional string, not null;        *)
(* schoolId is an optional string or null.                                 *)
ParseOk(body) ==
  /\ body.bookId \notin {Absent, NULL}
  /\ body.dueDate \notin {BadDate, NoDate}
  /\ body.returnedAt \in {Absent, NULL}
  /\ body.status # NULL

(* the row that insert(borrowTransactions).values(t) stores: column        *)
(* defaults fill the keys that are absent (id is the position in txs;      *)
(* borrowed_at, which no handler reads, is left out)                       *)
InsertedRow(t) ==
  [bookId     |-> t.bookId,
   userId     |-> t.userId,
   schoolId   |-> t.schoolId,
   dueDate    |-> t.dueDate,
   returnedAt |-> NoDate,
   status     |-> IF t.status = Absent THEN "active" ELSE t.status]

(* insertBookSchema.parse: isbn (with title, author, category) is a        *)
(* required string, the empty string included; totalCopies and            *)
(* availableCopies are optional numbers; status is an optional string, not *)
(* null; schoolId is an optional string or null                            *)
ParseBookOk(body) ==
  /\ body.isbn \notin {Absent, NULL}
  /\ body.totalCopies # BadCount
  /\ body.availableCopies # BadCount
  /\ body.status # NULL

(* the row that insert(books).values(b) stores: status defaults to         *)
(* "available", total_copies and available_copies to 1                     *)
InsertedBook(b) ==
  [schoolId        |-> b.schoolId,
   isbn            |-> b.isbn,
   totalCopies     |-> IF b.totalCopies = NoCount THEN 1 ELSE b.totalCopies,
   availableCopies |-> IF b.availableCopies = NoCount THEN 1 ELSE b.availableCopies,
   status          |-> IF b.status = Absent THEN "available" ELSE b.status]

(* updateBookSchema.parse: insertBookSchema.partial(), so only the type of *)
(* a key that is present is checked                                        *)
ParsePatchOk(body) ==
  /\ body.isbn # NULL
  /\ body.totalCopies # BadCount
  /\ body.availableCopies # BadCount
  /\ body.status # NULL

(* parseInt on the cells a file of the model can hold: the leading integer *)
(* numeral of the string, NaN (BadCount) when it has none                  *)
ParseInt(s) ==
  CASE s = "0"   -> 0
    [] s = "1"   -> 1
    [] s = "2"   -> 2
    [] s = "3"   -> 3
    [] s = "5"   -> 5
    [] s = "10"  -> 10
    [] s = "07"  -> 7
    [] s = "2.9" -> 2
    [] s = "-2"  -> -2
    [] OTHER     -> BadCount

(* parseInt(record.totalCopies || "1") || 1: an absent or empty cell reads *)
(* as "1", and NaN and 0 give 1                                            *)
ParseCopies(s) ==
  LET n == ParseInt(IF s \in {Absent, ""} THEN "1" ELSE s)
  IN  IF n \in {BadCount, 0} THEN 1 ELSE n

(* the object the import loop hands to insertBookSchema.parse for a record *)
ImportedBook(record, schoolId) ==
  [isbn            |-> record.isbn,
   totalCopies     |-> ParseCopies(record.totalCopies),
   availableCopies |-> ParseCopies(record.totalCopies),
   status          |-> "available",
   schoolId        |-> schoolId]

(* ------------------------------ storage -------------------------------- *)

getBook(id) == IF id \in DOMAIN books THEN books[id] ELSE NoBook
bookExists(id) == id \in DOMAIN books

(* getBookByIsbn(isbn, schoolId?) finds a row in table bks: `if (schoolId)` *)
(* adds the school condition                                               *)
getBookByIsbn(bks, isbn, schoolId) ==
  \E b \in DOMAIN bks :
    /\ bks[b].isbn = isbn
    /\ schoolId # NULL => bks[b].schoolId = schoolId

(* unique("books_isbn_school_unique").on(isbn, schoolId) admits row b in   *)
(* table bks: no row has its isbn and its school (NULL schools are all     *)
(* distinct to the constraint)                                             *)
books_isbn_school_unique(bks, b) ==
  \/ b.schoolId = NULL
  \/ \A r \in DOMAIN bks : ~(bks[r].isbn = b.isbn /\ bks[r].schoolId = b.schoolId)

(* createBook(book) on table bks: the row gets the next generated id; the  *)
(* INSERT that the unique constraint refuses stores nothing (and throws)   *)
createBook(bks, b) ==
  IF books_isbn_school_unique(bks, InsertedBook(b))
  THEN bks @@ (NewBookId[Cardinality(DOMAIN bks) - Cardinality(BookIds) + 1] :> InsertedBook(b))
  ELSE bks

(* an update object with no key: update(books).set({}) throws before any  *)
(* query is sent                                                           *)
NoValues(v) ==
  /\ v.isbn = Absent
  /\ v.totalCopies = NoCount
  /\ v.availableCopies = NoCount
  /\ v.status = Absent
  /\ v.schoolId = Absent

(* the row id of books with the keys present in v written *)
SetBook(id, v) ==
  [isbn            |-> IF v.isbn = Absent THEN books[id].isbn ELSE v.isbn,
   totalCopies     |-> IF v.totalCopies = NoCount THEN books[id].totalCopies ELSE v.totalCopies,
   availableCopies |-> IF v.availableCopies = NoCount
                       THEN books[id].availableCopies ELSE v.availableCopies,
   status          |-> IF v.status = Absent THEN books[id].status ELSE v.status,
   schoolId        |-> IF v.schoolId = Absent THEN books[id].schoolId ELSE v.schoolId]

(* update(books).set(bookUpdate).where(id) throws: no key to set, or the   *)
(* row written would have the isbn and the school of another row           *)
patchBookThrows(id, v) ==
  \/ NoValues(v)
  \/ /\ id \in DOMAIN books
     /\ ~books_isbn_school_unique([r \in DOMAIN books \ {id} |-> books[r]], SetBook(id, v))

(* update(books).set(bookUpdate).where(id): the keys present are written;  *)
(* the UPDATE that throws writes nothing                                   *)
patchBook(id, v) ==
  IF id \in DOMAIN books /\ ~patchBookThrows(id, v)
  THEN [books EXCEPT ![id] = SetBook(id, v)]
  ELSE books

getTransactionExists(id) == id \in 1..Len(txs)

getActiveTransactionsByUserId(u) ==
  { i \in 1..Len(txs) : txs[i].userId = u /\ txs[i].status = "active" }

(* updateBook(id, {availableCopies, status}) *)
updateBook(id, avail, st) ==
  IF id \in DOMAIN books
  THEN [books EXCEPT ![id].availableCopies = avail, ![id].status = st]
  ELSE books

(* createTransaction({...validated, userId, schoolId}); book_id           *)
(* references books.id, so the INSERT that names no row of books stores    *)
(* nothing (and throws)                                                    *)
createTransaction(v, a) ==
  IF v.bookId \in DOMAIN books
  THEN Append(txs, InsertedRow([v EXCEPT !.schoolId = a.schoolId] @@ [userId |-> a.userId]))
  ELSE txs

(* deleteBook(id): the row goes unless a loan references it (book_id       *)
(* references books.id with no ON DELETE rule: the DELETE throws)          *)
deleteBook(id) ==
  IF \E i \in 1..Len(txs) : txs[i].bookId = id
  THEN books
  ELSE [b \in DOMAIN books \ {id} |-> books[b]]

(* returnBook(id): unconditional UPDATE ... WHERE id = transactionId; the  *)
(* values of .set({returnedAt: new Date(), status: "returned"}) were built *)
(* at time `at`, when the handler made the call                            *)
returnBook(id, at) ==
  IF id \in 1..Len(txs)
  THEN [txs EXCEPT ![id].returnedAt = at, ![id].status = "returned"]
  ELSE txs

(* getOverdueTransactions(schoolId) with the status condition left out *)
getOverdueTransactions_AnyStatus(schoolId) ==
  { i \in 1..Len(txs) :
      /\ schoolId # NULL => txs[i].schoolId = schoolId
      /\ txs[i].dueDate < now }

(* getOverdueTransactions(schoolId?): `if (schoolId)` adds the school      *)
(* condition; due_date < NOW()                                             *)
getOverdueTransactions(schoolId) ==
  { i \in 1..Len(txs) :
      /\ txs[i].status = "active"
      /\ schoolId # NULL => txs[i].schoolId = schoolId
      /\ txs[i].dueDate < now }

(* ------------------------------ state ---------------------------------- *)

(* A loan as a member of school s1 borrowing b2 through the client leaves  *)
(* it: the store holds k of them for u1 when the behaviour starts.         *)
PreloadedLoan ==
  [bookId |-> "b2", userId |-> "u1", schoolId |-> "s1",
   dueDate |-> 1, returnedAt |-> NoDate, status |-> "active"]

Preloads == {0, LoanLimit - 1}
SeqPreloads == {0, LoanLimit - 1, LoanLimit}

(* The stores the behaviours start from are those POST /api/books and     *)
(* POST /api/transactions/borrow leave behind for school s1 (the database  *)
(* that server/seed.ts fills has books and users of no school, on which    *)
(* every Borrow is refused).  b1 has one copy; b2 has two copies where no  *)
(* loan exists and BigCopies where u1 already holds k copies of it.        *)
InitStore(k) ==
  /\ books = [b \in BookIds |->
               IF b = "b1"
               THEN [schoolId |-> "s1", isbn |-> "i1", totalCopies |-> 1,
                     availableCopies |-> 1, status |-> "available"]
               ELSE IF k = 0
               THEN [schoolId |-> "s1", isbn |-> "i2", totalCopies |-> 2,
                     availableCopies |-> 2, status |-> "available"]
               ELSE [schoolId |-> "s1", isbn |-> "i2", totalCopies |-> BigCopies,
                     availableCopies |-> BigCopies - k, status |-> "available"]]
  /\ txs = [i \in 1..k |-> PreloadedLoan]
  /\ now = 0

InitWorkers ==
  /\ pc = [p \in Workers |-> "idle"]
  /\ actor = [p \in Workers |-> NoToken]
  /\ val = [p \in Workers |-> NoBody]
  /\ tid = [p \in Workers |-> 0]
  /\ book = [p \in Workers |-> NoBook]
  /\ res = [p \in Workers |-> NoRes]
  /\ stamp = [p \in Workers |-> NoDate]
  /\ vbook = [p \in Workers |-> NoValidated]
  /\ bid = [p \in Workers |-> NULL]
  /\ rest = [p \in Workers |-> <<>>]
  /\ queue = <<>>
  /\ listed = {}

NoHist == [stage |-> "none", book |-> NULL, avail0 |-> 0, len0 |-> 0, id |-> 0]

Init ==
  /\ \E k \in Preloads : InitStore(k)
  /\ InitWorkers
  /\ budget = MaxReqs
  /\ hist = NoHist

InitSeq ==
  /\ \E k \in SeqPreloads : InitStore(k)
  /\ InitWorkers
  /\ budget = MaxSeqReqs
  /\ hist = NoHist

(* Every storage method runs its query on the one pg.Client of the        *)
(* process, and the client runs the queries it is handed one after the     *)
(* other in the order they were sent.  A handler sends its next query at   *)
(* the moment the one before is answered, behind the queries the other     *)
(* handlers have waiting; the query that runs next is the one of the       *)
(* worker at the head of queue.  A request that starts sent its first      *)
(* query while the query answered last was under way.                      *)
Others(p) == SelectSeq(queue, LAMBDA q : q # p)
Sent(p) == Append(Others(p), p)
Turn(p) == queue # <<>> /\ Head(queue) = p

(* a new request is handed to the first worker that is free *)
Free(p) ==
  /\ pc[p] = "idle"
  /\ \A q \in Workers : q < p => pc[q] # "idle"

(* the handler of worker p ends with response r *)
Respond(p, r) ==
  /\ res' = [res EXCEPT ![p] = r]
  /\ pc' = [pc EXCEPT ![p] = "idle"]
  /\ actor' = [actor EXCEPT ![p] = NoToken]
  /\ val' = [val EXCEPT ![p] = NoBody]
  /\ tid' = [tid EXCEPT ![p] = 0]
  /\ book' = [book EXCEPT ![p] = NoBook]
  /\ stamp' = [stamp EXCEPT ![p] = NoDate]
  /\ vbook' = [vbook EXCEPT ![p] = NoValidated]
  /\ bid' = [bid EXCEPT ![p] = NULL]
  /\ rest' = [rest EXCEPT ![p] = <<>>]
  /\ queue' = Others(p)

(* ------------------ POST /api/transactions/borrow ----------------------- *)

(* BorrowReject with the comparison of the book's school left out *)
BorrowReject_NoSchoolCheck(a, body) ==
  IF ~ParseOk(body) THEN Response(400, "Validation error", 0)
  ELSE IF a.schoolId = NULL
    THEN Response(400, "User must be associated with a school", 0)
  ELSE IF ~bookExists(body.bookId) THEN Response(404, "Book not found", 0)
  ELSE IF getBook(body.bookId).availableCopies <= 0
    THEN Response(400, "No copies available", 0)
  ELSE NoRes

(* BorrowReject with the check of availableCopies left out *)
BorrowReject_NoCopiesCheck(a, body) ==
  IF ~ParseOk(body) THEN Response(400, "Validation error", 0)
  ELSE IF a.schoolId = NULL
    THEN Response(400, "User must be associated with a school", 0)
  ELSE IF ~bookExists(body.bookId) THEN Response(404, "Book not found", 0)
  ELSE IF getBook(body.bookId).schoolId # a.schoolId
    THEN Response(403, "This book belongs to a different school", 0)
  ELSE NoRes

(* BorrowReject looking at the copies before the school of the book *)
BorrowReject_CopiesFirst(a, body) ==
  IF ~ParseOk(body) THEN Response(400, "Validation error", 0)
  ELSE IF a.schoolId = NULL
    THEN Response(400, "User must be associated with a school", 0)
  ELSE IF ~bookExists(body.bookId) THEN Response(404, "Book not found", 0)
  ELSE IF getBook(body.bookId).availableCopies <= 0
    THEN Response(400, "No copies available", 0)
  ELSE IF getBook(body.bookId).schoolId # a.schoolId
    THEN Response(403, "This book belongs to a different school", 0)
  ELSE NoRes

(* the response of the synchronous prefix of the handler and of the checks *)
(* on the book row, or NoRes when the handler goes on                      *)
BorrowReject(a, body) ==
  IF ~ParseOk(body) THEN Response(400, "Validation error", 0)
  ELSE IF a.schoolId = NULL
    THEN Response(400, "User must be associated with a school", 0)
  ELSE IF ~bookExists(body.bookId) THEN Response(404, "Book not found", 0)
  ELSE IF getBook(body.bookId).schoolId # a.schoolId
    THEN Response(403, "This book belongs to a different school", 0)
  ELSE IF getBook(body.bookId).availableCopies <= 0
    THEN Response(400, "No copies available", 0)
  ELSE NoRes

(* parse, school check, await storage.getBook, checks on the row *)
BorrowStart(p, a, body) ==
  /\ Free(p)
  /\ budget > 0
  /\ budget' = budget - 1
  /\ IF BorrowReject(a, body) # NoRes
     THEN Respond(p, BorrowReject(a, body))
     ELSE /\ pc' = [pc EXCEPT ![p] = "b_loans"]
          /\ queue' = Sent(p)
          /\ actor' = [actor EXCEPT ![p] = a]
          /\ val' = [val EXCEPT ![p] = body]
          /\ book' = [book EXCEPT ![p] = getBook(body.bookId)]
          /\ res' = [res EXCEPT ![p] = NoRes]
          /\ UNCHANGED <<tid, stamp, vbook, bid, rest>>
  /\ UNCHANGED <<books, txs, now>>

(* BorrowLoans comparing with > where the handler compares with >= *)
BorrowLoans_OffByOne(p) ==
  /\ pc[p] = "b_loans"
  /\ Turn(p)
  /\ IF Cardinality(getActiveTransactionsByUserId(actor[p].userId)) > LoanLimit
     THEN Respond(p, Response(400, "Maximum loan limit reached (5 books)", 0))
     ELSE /\ pc' = [pc EXCEPT ![p] = "b_insert"]
          /\ queue' = Sent(p)
          /\ UNCHANGED <<actor, val, tid, book, res, stamp, vbook, bid, rest>>
  /\ UNCHANGED <<books, txs, now, budget>>

(* await storage.getActiveTransactionsByUserId, limit check *)
BorrowLoans(p) ==
  /\ pc[p] = "b_loans"
  /\ Turn(p)
  /\ IF Cardinality(getActiveTransactionsByUserId(actor[p].userId)) >= LoanLimit
     THEN Respond(p, Response(400, "Maximum loan limit reached (5 books)", 0))
     ELSE /\ pc' = [pc EXCEPT ![p] = "b_insert"]
          /\ queue' = Sent(p)
          /\ UNCHANGED <<actor, val, tid, book, res, stamp, vbook, bid, rest>>
  /\ UNCHANGED <<books, txs, now, budget>>

(* await storage.createTransaction; when the book's row is gone the       *)
(* INSERT throws and the catch block answers 500                           *)
BorrowInsert(p) ==
  /\ pc[p] = "b_insert"
  /\ Turn(p)
  /\ txs' = createTransaction(val[p], actor[p])
  /\ IF bookExists(val[p].bookId)
     THEN /\ tid' = [tid EXCEPT ![p] = Len(txs) + 1]
          /\ pc' = [pc EXCEPT ![p] = "b_update"]
          /\ queue' = Sent(p)
          /\ UNCHANGED <<actor, val, book, res, stamp, vbook, bid, rest>>
     ELSE Respond(p, Response(500, "Failed to borrow book", 0))
  /\ UNCHANGED <<books, now, budget>>

(* BorrowUpdate writing back the status it read, whatever the counter *)
BorrowUpdate_KeepStatus(p) ==
  /\ pc[p] = "b_update"
  /\ Turn(p)
  /\ books' = updateBook(val[p].bookId, book[p].availableCopies - 1, book[p].status)
  /\ Respond(p, Response(201, "", tid[p]))
  /\ UNCHANGED <<txs, now, budget>>

(* await storage.updateBook with the row read at the start, 201 *)
BorrowUpdate(p) ==
  /\ pc[p] = "b_update"
  /\ Turn(p)
  /\ books' = updateBook(val[p].bookId, book[p].availableCopies - 1,
                         IF book[p].availableCopies - 1 = 0
                         THEN "borrowed" ELSE book[p].status)
  /\ Respond(p, Response(201, "", tid[p]))
  /\ UNCHANGED <<txs, now, budget>>

(* ------------------ POST /api/transactions/:id/return ------------------- *)

(* ReturnReject with the check of the loan's status left out *)
ReturnReject_NoStatusCheck(a, id) ==
  IF ~getTransactionExists(id) THEN Response(404, "Transaction not found", 0)
  ELSE IF a.schoolId = NULL \/ txs[id].schoolId # a.schoolId
    THEN Response(403, "This transaction belongs to a different school", 0)
  ELSE IF txs[id].userId # a.userId /\ a.role \notin {"admin", "super_admin"}
    THEN Response(403, "Not authorized", 0)
  ELSE NoRes

(* ReturnReject with the check of the caller against the loan's user left out *)
ReturnReject_NoOwnerCheck(a, id) ==
  IF ~getTransactionExists(id) THEN Response(404, "Transaction not found", 0)
  ELSE IF a.schoolId = NULL \/ txs[id].schoolId # a.schoolId
    THEN Response(403, "This transaction belongs to a different school", 0)
  ELSE IF txs[id].status # "active"
    THEN Response(400, "Book already returned", 0)
  ELSE NoRes

(* the checks on the loan row, or NoRes when the handler goes on *)
ReturnReject(a, id) ==
  IF ~getTransactionExists(id) THEN Response(404, "Transaction not found", 0)
  ELSE IF a.schoolId = NULL \/ txs[id].schoolId # a.schoolId
    THEN Response(403, "This transaction belongs to a different school", 0)
  ELSE IF txs[id].userId # a.userId /\ a.role \notin {"admin", "super_admin"}
    THEN Response(403, "Not authorized", 0)
  ELSE IF txs[id].status # "active"
    THEN Response(400, "Book already returned", 0)
  ELSE NoRes

(* await storage.getTransactionById, checks on the row, and the call of    *)
(* storage.returnBook, which builds its new Date() before it awaits        *)
ReturnStart(p, a, id) ==
  /\ Free(p)
  /\ budget > 0
  /\ budget' = budget - 1
  /\ IF ReturnReject(a, id) # NoRes
     THEN Respond(p, ReturnReject(a, id))
     ELSE /\ pc' = [pc EXCEPT ![p] = "r_mark"]
          /\ queue' = Sent(p)
          /\ actor' = [actor EXCEPT ![p] = a]
          /\ tid' = [tid EXCEPT ![p] = id]
          /\ stamp' = [stamp EXCEPT ![p] = now]
          /\ UNCHANGED <<vbook, bid, rest>>
          /\ res' = [res EXCEPT ![p] = NoRes]
          /\ UNCHANGED <<val, book>>
  /\ UNCHANGED <<books, txs, now>>

(* the UPDATE of storage.returnBook runs *)
ReturnMark(p) ==
  /\ pc[p] = "r_mark"
  /\ Turn(p)
  /\ txs' = returnBook(tid[p], stamp[p])
  /\ pc' = [pc EXCEPT ![p] = "r_getbook"]
  /\ queue' = Sent(p)
  /\ UNCHANGED <<books, now, actor, val, tid, book, res, budget, stamp, vbook, bid, rest>>

(* await storage.getBook(transaction.bookId) *)
ReturnGetBook(p) ==
  /\ pc[p] = "r_getbook"
  /\ Turn(p)
  /\ IF bookExists(txs[tid[p]].bookId)
     THEN /\ book' = [book EXCEPT ![p] = getBook(txs[tid[p]].bookId)]
          /\ pc' = [pc EXCEPT ![p] = "r_update"]
          /\ queue' = Sent(p)
          /\ UNCHANGED <<actor, val, tid, res, stamp, vbook, bid, rest>>
     ELSE Respond(p, Response(200, "", tid[p]))
  /\ UNCHANGED <<books, txs, now, budget>>

(* ReturnUpdate writing the counter it read, not that counter plus one *)
ReturnUpdate_KeepCounter(p) ==
  /\ pc[p] = "r_update"
  /\ Turn(p)
  /\ books' = updateBook(txs[tid[p]].bookId, book[p].availableCopies, "available")
  /\ Respond(p, Response(200, "", tid[p]))
  /\ UNCHANGED <<txs, now, budget>>

(* await storage.updateBook with the row just read, 200 *)
ReturnUpdate(p) ==
  /\ pc[p] = "r_update"
  /\ Turn(p)
  /\ books' = updateBook(txs[tid[p]].bookId, book[p].availableCopies + 1, "available")
  /\ Respond(p, Response(200, "", tid[p]))
  /\ UNCHANGED <<txs, now, budget>>

(* ------------------ GET /api/transactions/overdue ----------------------- *)

(* requireRole("admin", "super_admin"), await storage.getOverdueTransactions *)
ListOverdue(p, a) ==
  /\ Free(p)
  /\ budget > 0
  /\ budget' = budget - 1
  /\ IF a.role \notin {"admin", "super_admin"}
     THEN /\ Respond(p, Response(403, "Insufficient permissions", 0))
          /\ UNCHANGED listed
     ELSE /\ Respond(p, Response(200, "", 0))
          /\ listed' = getOverdueTransactions(a.schoolId)
  /\ UNCHANGED <<books, txs, now>>

(* --------------------------- POST /api/books ---------------------------- *)

(* CreateReject with the check of the caller's school left out *)
CreateReject_NoSchoolCheck(a, body) ==
  IF a.role \notin {"admin", "super_admin"}
    THEN Response(403, "Insufficient permissions", 0)
  ELSE IF ~ParseBookOk(body) THEN Response(400, "Validation error", 0)
  ELSE IF getBookByIsbn(books, body.isbn, a.schoolId)
    THEN Response(400, "Book with this ISBN already exists", 0)
  ELSE NoRes

(* requireRole, the school of the caller, insertBookSchema.parse,          *)
(* await storage.getBookByIsbn; NoRes when the handler goes on             *)
CreateReject(a, body) ==
  IF a.role \notin {"admin", "super_admin"}
    THEN Response(403, "Insufficient permissions", 0)
  ELSE IF a.schoolId = NULL
    THEN Response(400, "Admin must be associated with a school to add books", 0)
  ELSE IF ~ParseBookOk(body) THEN Response(400, "Validation error", 0)
  ELSE IF getBookByIsbn(books, body.isbn, a.schoolId)
    THEN Response(400, "Book with this ISBN already exists", 0)
  ELSE NoRes

(* the handler up to its second store call: rejected, or parked at        *)
(* await storage.createBook(validated) with validated = {...req.body,      *)
(* schoolId}                                                               *)
CreateStart(p, a, body) ==
  /\ Free(p)
  /\ budget > 0
  /\ budget' = budget - 1
  /\ IF CreateReject(a, body) # NoRes
     THEN Respond(p, CreateReject(a, body))
     ELSE /\ pc' = [pc EXCEPT ![p] = "c_insert"]
          /\ queue' = Sent(p)
          /\ actor' = [actor EXCEPT ![p] = a]
          /\ vbook' = [vbook EXCEPT ![p] = [body EXCEPT !.schoolId = a.schoolId]]
          /\ UNCHANGED <<val, tid, book, res, stamp, bid, rest>>
  /\ UNCHANGED <<books, txs, now>>

(* storage.createBook(validated): 201 with the row, or the INSERT is       *)
(* refused by the unique constraint and the catch block answers 500        *)
CreateInsert(p) ==
  /\ pc[p] = "c_insert"
  /\ Turn(p)
  /\ books_isbn_school_unique(books, InsertedBook(vbook[p]))
       => Cardinality(DOMAIN books) < Cardinality(BookIds) + MaxNewBooks
  /\ books' = createBook(books, vbook[p])
  /\ Respond(p, IF books_isbn_school_unique(books, InsertedBook(vbook[p]))
                THEN Response(201, "", 0)
                ELSE Response(500, "Failed to create book", 0))
  /\ UNCHANGED <<txs, now, budget>>

(* -------------------------- PATCH /api/books/:id ------------------------ *)

(* requireRole, await storage.getBook, the school of the row,              *)
(* updateBookSchema.parse, and storage.updateBook called with an object    *)
(* of no key, which throws before it sends a query (the catch block        *)
(* answers 500); NoRes when the handler goes on                            *)
PatchReject(a, id, body) ==
  IF a.role \notin {"admin", "super_admin"}
    THEN Response(403, "Insufficient permissions", 0)
  ELSE IF ~bookExists(id) THEN Response(404, "Book not found", 0)
  ELSE IF a.schoolId # NULL /\ getBook(id).schoolId # a.schoolId
    THEN Response(403, "Access denied", 0)
  ELSE IF ~ParsePatchOk(body) THEN Response(400, "Validation error", 0)
  ELSE IF NoValues(body) THEN Response(500, "Failed to update book", 0)
  ELSE NoRes

(* the handler up to its second store call: rejected, or parked at        *)
(* await storage.updateBook(req.params.id, validated)                      *)
PatchStart(p, a, id, body) ==
  /\ Free(p)
  /\ budget > 0
  /\ budget' = budget - 1
  /\ IF PatchReject(a, id, body) # NoRes
     THEN Respond(p, PatchReject(a, id, body))
     ELSE /\ pc' = [pc EXCEPT ![p] = "e_update"]
          /\ queue' = Sent(p)
          /\ actor' = [actor EXCEPT ![p] = a]
          /\ bid' = [bid EXCEPT ![p] = id]
          /\ vbook' = [vbook EXCEPT ![p] = body]
          /\ UNCHANGED <<val, tid, book, res, stamp, rest>>
  /\ UNCHANGED <<books, txs, now>>

(* storage.updateBook(req.params.id, validated), res.json(updatedBook);    *)
(* the UPDATE that throws writes nothing and the catch block answers 500   *)
PatchUpdate(p) ==
  /\ pc[p] = "e_update"
  /\ Turn(p)
  /\ books' = patchBook(bid[p], vbook[p])
  /\ Respond(p, IF patchBookThrows(bid[p], vbook[p])
                THEN Response(500, "Failed to update book", 0)
                ELSE Response(200, "", 0))
  /\ UNCHANGED <<txs, now, budget>>

(* ------------------------- DELETE /api/books/:id ------------------------ *)

(* requireRole, await storage.getBook, the school of the row; NoRes when   *)
(* the handler goes on                                                     *)
DeleteReject(a, id) ==
  IF a.role \notin {"admin", "super_admin"}
    THEN Response(403, "Insufficient permissions", 0)
  ELSE IF ~bookExists(id) THEN Response(404, "Book not found", 0)
  ELSE IF a.schoolId # NULL /\ getBook(id).schoolId # a.schoolId
    THEN Response(403, "Access denied", 0)
  ELSE NoRes

(* the handler up to its second store call: rejected, or parked at        *)
(* await storage.deleteBook(req.params.id)                                 *)
DeleteStart(p, a, id) ==
  /\ Free(p)
  /\ budget > 0
  /\ budget' = budget - 1
  /\ IF DeleteReject(a, id) # NoRes
     THEN Respond(p, DeleteReject(a, id))
     ELSE /\ pc' = [pc EXCEPT ![p] = "d_delete"]
          /\ queue' = Sent(p)
          /\ actor' = [actor EXCEPT ![p] = a]
          /\ bid' = [bid EXCEPT ![p] = id]
          /\ UNCHANGED <<val, tid, book, res, stamp, vbook, rest>>
  /\ UNCHANGED <<books, txs, now>>

(* storage.deleteBook(req.params.id): 500 when a loan references the row   *)
(* (the DELETE throws), 404 when no row was deleted, else 200              *)
DeleteBook(p) ==
  /\ pc[p] = "d_delete"
  /\ Turn(p)
  /\ books' = deleteBook(bid[p])
  /\ Respond(p, IF \E i \in 1..Len(txs) : txs[i].bookId = bid[p]
                  THEN Response(500, "Failed to delete book", 0)
                ELSE IF ~bookExists(bid[p]) THEN Response(404, "Book not found", 0)
                ELSE Response(200, "Book deleted successfully", 0))
  /\ UNCHANGED <<txs, now, budget>>

(* ------------------------ POST /api/books/import ------------------------ *)

(* requireRole, the school of the caller, the upload, parse(csvContent);   *)
(* NoRes when the handler goes on to the records                           *)
ImportReject(a, file) ==
  IF a.role \notin {"admin", "super_admin"}
    THEN Response(403, "Insufficient permissions", 0)
  ELSE IF a.schoolId = NULL
    THEN Response(400, "Admin must be associated with a school to import books", 0)
  ELSE IF file = NoFile THEN Response(400, "No file uploaded", 0)
  ELSE IF file = ShortRowFile THEN Response(500, "Failed to import books", 0)
  ELSE NoRes

(* the loop from records[i] to the next await: the records that fail       *)
(* insertBookSchema.parse get an entry in results.errors and are passed    *)
(* over; what is left starts with the record whose lookup comes next       *)
RECURSIVE ImportRecords(_, _)
ImportRecords(records, schoolId) ==
  IF records = <<>> THEN <<>>
  ELSE IF ParseBookOk(ImportedBook(Head(records), schoolId)) THEN records
  ELSE ImportRecords(Tail(records), schoolId)

(* the loop moves on from records[i]: to the lookup of the next record     *)
(* that parses, or to res.json(results) when none is left                  *)
ImportContinue(p) ==
  LET records == ImportRecords(Tail(rest[p]), actor[p].schoolId)
  IN  IF records = <<>>
      THEN Respond(p, Response(200, "", 0))
      ELSE /\ pc' = [pc EXCEPT ![p] = "i_lookup"]
           /\ queue' = Sent(p)
           /\ rest' = [rest EXCEPT ![p] = records]
           /\ UNCHANGED <<actor, val, tid, book, res, stamp, vbook, bid>>

(* the handler up to its first store call: rejected, answered when no      *)
(* record parses, or parked at await storage.getBookByIsbn                 *)
ImportStart(p, a, file) ==
  /\ Free(p)
  /\ budget > 0
  /\ budget' = budget - 1
  /\ IF ImportReject(a, file) # NoRes
     THEN Respond(p, ImportReject(a, file))
     ELSE IF ImportRecords(file, a.schoolId) = <<>>
     THEN Respond(p, Response(200, "", 0))
     ELSE /\ pc' = [pc EXCEPT ![p] = "i_lookup"]
          /\ queue' = Sent(p)
          /\ actor' = [actor EXCEPT ![p] = a]
          /\ rest' = [rest EXCEPT ![p] = ImportRecords(file, a.schoolId)]
          /\ UNCHANGED <<val, tid, book, res, stamp, vbook, bid>>
  /\ UNCHANGED <<books, txs, now>>

(* storage.getBookByIsbn(validated.isbn, schoolId): the record is skipped  *)
(* when the school has the ISBN, else the handler parks at                 *)
(* await storage.createBook(validated)                                     *)
ImportLookup(p) ==
  /\ pc[p] = "i_lookup"
  /\ Turn(p)
  /\ IF getBookByIsbn(books, Head(rest[p]).isbn, actor[p].schoolId)
     THEN ImportContinue(p)
     ELSE /\ pc' = [pc EXCEPT ![p] = "i_insert"]
          /\ queue' = Sent(p)
          /\ UNCHANGED <<actor, val, tid, book, res, stamp, vbook, bid, rest>>
  /\ UNCHANGED <<books, txs, now, budget>>

(* storage.createBook(validated): the row is stored and counted, or the    *)
(* INSERT is refused and the inner catch notes an error; the loop goes on  *)
ImportInsert(p) ==
  /\ pc[p] = "i_insert"
  /\ Turn(p)
  /\ books_isbn_school_unique(books, ImportedBook(Head(rest[p]), actor[p].schoolId))
       => Cardinality(DOMAIN books) < Cardinality(BookIds) + MaxNewBooks
  /\ books' = createBook(books, ImportedBook(Head(rest[p]), actor[p].schoolId))
  /\ ImportContinue(p)
  /\ UNCHANGED <<txs, now, budget>>

(* ------------------------------ clock ----------------------------------- *)
Tick ==
  /\ now < MaxNow
  /\ now' = now + 1
  /\ UNCHANGED <<books, txs, pc, actor, val, tid, book, res, budget, stamp, vbook, bid, rest, queue>>

(* --------------------------- store failure ------------------------------ *)

(* the pending store call of worker p rejects; the handler's catch block   *)
(* answers 500 and nothing is undone                                       *)
StoreFail(p) ==
  /\ pc[p] # "idle"
  /\ Turn(p)
  /\ Respond(p, Response(500, IF pc[p] \in {"b_loans", "b_insert", "b_update"}
                              THEN "Failed to borrow book"
                              ELSE "Failed to return book", 0))
  /\ UNCHANGED <<books, txs, now, budget>>

(* storage.getBook, the first store call of a Borrow that passed the       *)
(* parse and the school check, rejects: 500, nothing written               *)
BorrowStartFail(p, a, body) ==
  /\ Free(p)
  /\ budget > 0
  /\ budget' = budget - 1
  /\ ParseOk(body)
  /\ a.schoolId # NULL
  /\ Respond(p, Response(500, "Failed to borrow book", 0))
  /\ UNCHANGED <<books, txs, now>>

(* storage.getTransactionById, the first store call of a Return, rejects *)
ReturnStartFail(p, a, id) ==
  /\ Free(p)
  /\ budget > 0
  /\ budget' = budget - 1
  /\ Respond(p, Response(500, "Failed to return book", 0))
  /\ UNCHANGED <<books, txs, now>>

(* ------------------------- specifications ------------------------------- *)

(* requests of any number of workers interleave at their store calls *)
Next ==
  \/ \E p \in Workers, a \in Tokens, body \in Bodies :
       BorrowStart(p, a, body) /\ UNCHANGED <<hist, listed>>
  \/ \E p \in Workers : BorrowLoans(p) /\ UNCHANGED <<hist, listed>>
  \/ \E p \in Workers : BorrowInsert(p) /\ UNCHANGED <<hist, listed>>
  \/ \E p \in Workers : BorrowUpdate(p) /\ UNCHANGED <<hist, listed>>
  \/ \E p \in Workers, a \in Tokens, id \in 1..(Len(txs) + 1) :
       ReturnStart(p, a, id) /\ UNCHANGED <<hist, listed>>
  \/ \E p \in Workers : ReturnMark(p) /\ UNCHANGED <<hist, listed>>
  \/ \E p \in Workers : ReturnGetBook(p) /\ UNCHANGED <<hist, listed>>
  \/ \E p \in Workers : ReturnUpdate(p) /\ UNCHANGED <<hist, listed>>
  \/ Tick /\ UNCHANGED <<hist, listed>>

Spec == Init /\ [][Next]_vars

(* Requests run one at a time: a request starts when no other is in       *)
(* flight.  hist records the request under way: the book it names, that    *)
(* book's availableCopies and the number of loans when it started, the     *)
(* loan it inserted, and how far a Borrow and the Return of its loan got.  *)
AllIdle == \A q \in Workers : pc[q] = "idle"

SeqBorrowStart(p, a, body) ==
  /\ AllIdle
  /\ BorrowStart(p, a, body)
  /\ hist' = [stage  |-> IF BorrowReject(a, body) = NoRes
                         THEN "borrowing" ELSE "rejected",
              book   |-> body.bookId,
              avail0 |-> getBook(body.bookId).availableCopies,
              len0   |-> Len(txs),
              id     |-> 0]

SeqBorrowLoans(p) ==
  /\ BorrowLoans(p)
  /\ hist' = IF pc'[p] = "idle" THEN [hist EXCEPT !.stage = "rejected"] ELSE hist

SeqBorrowInsert(p) ==
  /\ BorrowInsert(p)
  /\ hist' = [hist EXCEPT !.id = Len(txs) + 1]

SeqBorrowUpdate(p) ==
  /\ BorrowUpdate(p)
  /\ hist' = [hist EXCEPT !.stage = "borrowed"]

SeqReturnStart(p, a, id) ==
  /\ AllIdle
  /\ ReturnStart(p, a, id)
  /\ hist' = IF hist.stage = "borrowed" /\ id = hist.id /\ ReturnReject(a, id) = NoRes
             THEN [hist EXCEPT !.stage = "returning"]
             ELSE [hist EXCEPT !.stage = "none"]

SeqReturnEnd(p) ==
  /\ ReturnGetBook(p) \/ ReturnUpdate(p)
  /\ hist' = IF pc'[p] = "idle" /\ hist.stage = "returning"
             THEN [hist EXCEPT !.stage = "returned"] ELSE hist

SeqStoreFail(p) ==
  /\ StoreFail(p)
  /\ hist' = [hist EXCEPT !.stage = IF pc[p] \in {"b_loans", "b_insert", "b_update"}
                                    THEN "failed" ELSE "none"]

NextSeq ==
  \/ \E p \in Workers, a \in Tokens, body \in Bodies : SeqBorrowStart(p, a, body) /\ UNCHANGED listed
  \/ \E p \in Workers : SeqBorrowLoans(p) /\ UNCHANGED listed
  \/ \E p \in Workers : SeqBorrowInsert(p) /\ UNCHANGED listed
  \/ \E p \in Workers : SeqBorrowUpdate(p) /\ UNCHANGED listed
  \/ \E p \in Workers, a \in Tokens, id \in 1..(Len(txs) + 1) : SeqReturnStart(p, a, id) /\ UNCHANGED listed
  \/ \E p \in Workers : ReturnMark(p) /\ UNCHANGED <<hist, listed>>
  \/ \E p \in Workers : SeqReturnEnd(p) /\ UNCHANGED listed
  \/ Tick /\ UNCHANGED <<hist, listed>>

SpecSeq == InitSeq /\ [][NextSeq]_vars

SeqBorrowStartFail(p, a, body) ==
  /\ AllIdle
  /\ BorrowStartFail(p, a, body)
  /\ hist' = IF bookExists(body.bookId)
             THEN [stage  |-> "failed",
                   book   |-> body.bookId,
                   avail0 |-> getBook(body.bookId).availableCopies,
                   len0   |-> Len(txs),
                   id     |-> 0]
             ELSE NoHist

SeqReturnStartFail(p, a, id) ==
  /\ AllIdle
  /\ ReturnStartFail(p, a, id)
  /\ hist' = [hist EXCEPT !.stage = "none"]

(* one request at a time, and any store call may fail *)
NextFail ==
  \/ NextSeq
  \/ \E p \in Workers : SeqStoreFail(p) /\ UNCHANGED listed
  \/ \E p \in Workers, a \in Tokens, body \in Bodies :
       SeqBorrowStartFail(p, a, body) /\ UNCHANGED listed
  \/ \E p \in Workers, a \in Tokens, id \in 1..(Len(txs) + 1) :
       SeqReturnStartFail(p, a, id) /\ UNCHANGED listed

SpecFail == Init /\ [][NextFail]_vars

(* one request at a time, the overdue list among them *)
SeqListOverdue(p, a) ==
  /\ AllIdle
  /\ ListOverdue(p, a)
  /\ hist' = [NoHist EXCEPT !.stage = IF a.role \in {"admin", "super_admin"}
                                      THEN "listed" ELSE "none"]

NextList ==
  \/ NextSeq
  \/ \E p \in Workers, a \in Tokens : SeqListOverdue(p, a)

SpecList == InitSeq /\ [][NextList]_vars

(* A store in which every check of Borrow can fail for an actor of school  *)
(* s1: b1 belongs to school s2, every copy of b2 is on loan, and u1 and a1 *)
(* hold LoanLimit active loans each.                                       *)
InitOrder ==
  /\ books = [b \in BookIds |->
               IF b = "b1"
               THEN [schoolId |-> "s2", isbn |-> "i1", totalCopies |-> 1,
                     availableCopies |-> 1, status |-> "available"]
               ELSE [schoolId |-> "s1", isbn |-> "i2", totalCopies |-> 2 * LoanLimit,
                     availableCopies |-> 0, status |-> "borrowed"]]
  /\ txs = [i \in 1..(2 * LoanLimit) |->
              IF i <= LoanLimit THEN PreloadedLoan
              ELSE [PreloadedLoan EXCEPT !.userId = "a1"]]
  /\ now = 0
  /\ InitWorkers
  /\ budget = MaxOrderReqs
  /\ hist = NoHist

SpecOrder == InitOrder /\ [][NextSeq]_vars

(* Borrow requests and the requests that add books interleave at their     *)
(* store calls                                                             *)
InitCatalog ==
  /\ InitStore(0)
  /\ InitWorkers
  /\ budget = MaxCatalogReqs
  /\ hist = NoHist

NextCatalog ==
  \/ \E p \in Workers, a \in Tokens, body \in Bodies :
       BorrowStart(p, a, body) /\ UNCHANGED <<hist, listed>>
  \/ \E p \in Workers : BorrowLoans(p) /\ UNCHANGED <<hist, listed>>
  \/ \E p \in Workers : BorrowInsert(p) /\ UNCHANGED <<hist, listed>>
  \/ \E p \in Workers : BorrowUpdate(p) /\ UNCHANGED <<hist, listed>>
  \/ \E p \in Workers, a \in Tokens, body \in BookBodies :
       CreateStart(p, a, body) /\ UNCHANGED <<hist, listed>>
  \/ \E p \in Workers : CreateInsert(p) /\ UNCHANGED <<hist, listed>>
  \/ \E p \in Workers, a \in Tokens, file \in Uploads :
       ImportStart(p, a, file) /\ UNCHANGED <<hist, listed>>
  \/ \E p \in Workers : ImportLookup(p) /\ UNCHANGED <<hist, listed>>
  \/ \E p \in Workers : ImportInsert(p) /\ UNCHANGED <<hist, listed>>

SpecCatalog == InitCatalog /\ [][NextCatalog]_vars

(* requests interleave at their store calls, catalogue edits among them *)
InitEdit ==
  /\ InitStore(0)
  /\ InitWorkers
  /\ budget = MaxEditReqs
  /\ hist = NoHist

NextEdit ==
  \/ Next
  \/ \E p \in Workers, a \in Tokens, id \in BookIds \cup {MissingBook}, body \in PatchBodies :
       PatchStart(p, a, id, body) /\ UNCHANGED <<hist, listed>>
  \/ \E p \in Workers : PatchUpdate(p) /\ UNCHANGED <<hist, listed>>
  \/ \E p \in Workers, a \in Tokens, id \in BookIds \cup {MissingBook} :
       DeleteStart(p, a, id) /\ UNCHANGED <<hist, listed>>
  \/ \E p \in Workers : DeleteBook(p) /\ UNCHANGED <<hist, listed>>

SpecEdit == InitEdit /\ [][NextEdit]_vars

(* More requests in one behaviour, from fewer inputs: the members of       *)
(* school s1 borrow the school's books through the client and return the   *)
(* loans; the clock stands still.                                          *)
RaceTokens == { a \in Tokens : a.schoolId = "s1" }
RaceBodies == { ClientBody(b, MaxNow) : b \in BookIds }

InitRace ==
  /\ InitStore(0)
  /\ InitWorkers
  /\ budget = MaxRaceReqs
  /\ hist = NoHist

NextRace ==
  \/ \E p \in Workers, a \in RaceTokens, body \in RaceBodies :
       BorrowStart(p, a, body) /\ UNCHANGED <<hist, listed>>
  \/ \E p \in Workers : BorrowLoans(p) /\ UNCHANGED <<hist, listed>>
  \/ \E p \in Workers : BorrowInsert(p) /\ UNCHANGED <<hist, listed>>
  \/ \E p \in Workers : BorrowUpdate(p) /\ UNCHANGED <<hist, listed>>
  \/ \E p \in Workers, a \in RaceTokens, id \in 1..(Len(txs) + 1) :
       ReturnStart(p, a, id) /\ UNCHANGED <<hist, listed>>
  \/ \E p \in Workers : ReturnMark(p) /\ UNCHANGED <<hist, listed>>
  \/ \E p \in Workers : ReturnGetBook(p) /\ UNCHANGED <<hist, listed>>
  \/ \E p \in Workers : ReturnUpdate(p) /\ UNCHANGED <<hist, listed>>

SpecRace == InitRace /\ [][NextRace]_vars

(* ============================== claims ================================== *)

Issued(p) == res[p].code = 201          \* worker p answered a Borrow with a Loan
Returned(p) == res[p].code = 200        \* worker p answered a Return with a Loan

(* C1: two Borrow requests for the single copy of a one-copy item end with *)
(* one Loan and one "No copies available": never are two Loans, neither of *)
(* them returned, both answered 201 for an item with totalCopies = 1.      *)
C1_OneCopyOneLoan ==
  \A p, q \in Workers :
    (p # q /\ Issued(p) /\ Issued(q) /\ res[p].id # res[q].id)
      => ~ ( /\ txs[res[p].id].bookId = txs[res[q].id].bookId
             /\ books[txs[res[p].id].bookId].totalCopies = 1
             /\ txs[res[p].id].returnedAt = NoDate
             /\ txs[res[q].id].returnedAt = NoDate )

(* C2: in every state every item has 0 <= availableCopies <= totalCopies.  *)
C2_CounterInRange ==
  \A b \in DOMAIN books :
    /\ 0 <= books[b].availableCopies
    /\ books[b].availableCopies <= books[b].totalCopies

(* C3: in every state every member has at most 5 loans with status active. *)
C3_LoanLimit ==
  \A a \in Tokens :
    Cardinality(getActiveTransactionsByUserId(a.userId)) <= LoanLimit

(* C4: of two Borrow requests a member issues together while holding 4     *)
(* active loans at most one is answered with a Loan: never have both       *)
(* workers answered 201 to the same member who then holds 6 active loans.  *)
C4_FifthLoanOnce ==
  \A p, q \in Workers :
    (p # q /\ Issued(p) /\ Issued(q) /\ res[p].id # res[q].id
       /\ txs[res[p].id].userId = txs[res[q].id].userId)
      => Cardinality(getActiveTransactionsByUserId(txs[res[p].id].userId)) # LoanLimit + 1

(* C5: of the Return requests that run together for one active Loan one    *)
(* succeeds and the others get "Book already returned": never do two       *)
(* workers answer 200 for the same Loan.                                   *)
C5_OneReturnPerLoan ==
  \A p, q \in Workers :
    (p # q /\ Returned(p) /\ Returned(q)) => res[p].id # res[q].id

(* C6: a Loan that has status returned keeps it in every step, and a       *)
(* Return request that a permitted actor issues for it afterwards is       *)
(* answered "Book already returned" and changes neither table.             *)
Permitted(a, id) ==
  /\ a.schoolId # NULL
  /\ txs[id].schoolId = a.schoolId
  /\ (txs[id].userId = a.userId \/ a.role \in {"admin", "super_admin"})

C6_ReturnedStays ==
  [][ /\ \A i \in 1..Len(txs) :
           txs[i].status = "returned"
             => (i <= Len(txs') /\ txs'[i].status = "returned")
      /\ \A p \in Workers, a \in Tokens, i \in 1..Len(txs) :
           (txs[i].status = "returned" /\ Permitted(a, i) /\ ReturnStart(p, a, i))
             => ( /\ res'[p] = Response(400, "Book already returned", 0)
                  /\ pc'[p] = "idle"
                  /\ txs' = txs
                  /\ books' = books ) ]_vars

C6_Witness ==
  \E p \in Workers, i \in 1..Len(txs) :
    /\ res[p] = Response(400, "Book already returned", 0)
    /\ txs[i].status = "returned"
    /\ txs[i].returnedAt # NoDate

(* C7: when a Borrow that succeeded is followed at once by the successful  *)
(* Return of the Loan it created, the item's availableCopies is what it    *)
(* was when the Borrow started.                                            *)
C7_BorrowReturnNeutral ==
  hist.stage = "returned" => books[hist.book].availableCopies = hist.avail0

C7_Witness ==
  /\ hist.stage = "returned"
  /\ txs[hist.id].status = "returned"
  /\ AllIdle

(* C8: a Borrow by an actor of one school for a book of another school     *)
(* inserts no loan and changes no book row, whatever the actor's role; it  *)
(* is answered 403 (or 404) once the body has parsed.                      *)
CrossTenant(a, body) ==
  /\ a.schoolId # NULL
  /\ bookExists(body.bookId)
  /\ getBook(body.bookId).schoolId # a.schoolId

C8_TenantIsolation ==
  [][ \A p \in Workers, a \in Tokens, body \in Bodies :
        (CrossTenant(a, body) /\ BorrowStart(p, a, body))
          => ( /\ txs' = txs
               /\ books' = books
               /\ pc'[p] = "idle"
               /\ res'[p].code \in {400, 403, 404}
               /\ ParseOk(body) => res'[p].code \in {403, 404} ) ]_vars

C8_Witness ==
  \E p \in Workers :
    res[p] = Response(403, "This book belongs to a different school", 0)

(* C9: when a Borrow request has ended, whether with a Loan, a rejection   *)
(* or a failed store call, either a loan was added and the book's          *)
(* availableCopies went down by 1, or no loan was added and the counter    *)
(* is what it was.                                                         *)
C9_BorrowAllOrNothing ==
  (hist.stage \in {"borrowed", "rejected", "failed"} /\ bookExists(hist.book))
    => \/ /\ Len(txs) = hist.len0 + 1
          /\ books[hist.book].availableCopies = hist.avail0 - 1
       \/ /\ Len(txs) = hist.len0
          /\ books[hist.book].availableCopies = hist.avail0

(* C10: the row a Borrow inserts has status active, no returnedAt, the     *)
(* requested dueDate, the actor's user id and the actor's school id,       *)
(* whatever the body carries in status, returnedAt and schoolId.           *)
C10_InsertedLoan ==
  [][ \A p \in Workers :
        BorrowInsert(p)
          => ( /\ Len(txs') = Len(txs) + 1
               /\ txs'[Len(txs')].status = "active"
               /\ txs'[Len(txs')].returnedAt = NoDate
               /\ txs'[Len(txs')].dueDate = val[p].dueDate
               /\ txs'[Len(txs')].userId = actor[p].userId
               /\ txs'[Len(txs')].schoolId = actor[p].schoolId ) ]_vars

(* C11: in every state every loan has status active or returned, and its   *)
(* returnedAt is set exactly when its status is returned.                  *)
C11_LoanShape ==
  \A i \in 1..Len(txs) :
    /\ txs[i].status \in {"active", "returned"}
    /\ (txs[i].returnedAt # NoDate) <=> (txs[i].status = "returned")

(* C12: on an item with totalCopies = 2, once one member has borrowed it   *)
(* twice in sequence availableCopies is 0; a further Borrow by a member of *)
(* the item's school is answered "No copies available" and changes         *)
(* nothing; once one of the two loans is returned availableCopies is 1.    *)
LoansOn(b) == { i \in 1..Len(txs) : txs[i].bookId = b }

Out(i) == txs[i].status = "active" /\ txs[i].returnedAt = NoDate
Back(i) == txs[i].status = "returned" /\ txs[i].returnedAt # NoDate

(* the loans on b are two loans of one member, n of them returned *)
TwoLoans(b, n) ==
  /\ bookExists(b)
  /\ books[b].totalCopies = 2
  /\ Cardinality(LoansOn(b)) = 2
  /\ \A i, j \in LoansOn(b) : txs[i].userId = txs[j].userId
  /\ \A i \in LoansOn(b) : Out(i) \/ Back(i)
  /\ Cardinality({ i \in LoansOn(b) : Back(i) }) = n

C12_TwoCopies ==
  /\ [](\A b \in BookIds :
          /\ (AllIdle /\ TwoLoans(b, 0)) => books[b].availableCopies = 0
          /\ (AllIdle /\ TwoLoans(b, 1)) => books[b].availableCopies = 1)
  /\ [][ \A p \in Workers, a \in Tokens, body \in Bodies :
           ( /\ TwoLoans(body.bookId, 0)
             /\ ParseOk(body)
             /\ a.schoolId = books[body.bookId].schoolId
             /\ SeqBorrowStart(p, a, body) )
             => ( /\ res'[p] = Response(400, "No copies available", 0)
                  /\ pc'[p] = "idle"
                  /\ txs' = txs
                  /\ books' = books ) ]_vars

C12_Witness ==
  /\ AllIdle
  /\ TwoLoans("b2", 0)
  /\ hist.stage = "rejected"
  /\ hist.book = "b2"
  /\ \E p \in Workers : res[p] = Response(400, "No copies available", 0)

(* C13: with requests run one at a time no member ever holds more than 5   *)
(* active loans: a Borrow of an available item by a member who holds 5 is  *)
(* answered "Maximum loan limit reached" and changes nothing, and the      *)
(* count is read anew by every Borrow, so after a Return the next Borrow   *)
(* goes on to insert and the one after it is rejected again.               *)
ActiveLoanCount(u) == Cardinality(getActiveTransactionsByUserId(u))

LimitReached == Response(400, "Maximum loan limit reached (5 books)", 0)

C13_LimitReevaluated ==
  /\ [](\A a \in Tokens : ActiveLoanCount(a.userId) <= LoanLimit)
  /\ [][ \A p \in Workers :
           (pc[p] = "b_loans" /\ BorrowLoans(p))
             => IF ActiveLoanCount(actor[p].userId) >= LoanLimit
                THEN /\ res'[p] = LimitReached
                     /\ pc'[p] = "idle"
                     /\ txs' = txs
                     /\ books' = books
                ELSE /\ pc'[p] = "b_insert"
                     /\ res'[p] = NoRes ]_vars

(* u1 holds 5 loans again after a Return and a new Borrow, and the Borrow  *)
(* after that has just been rejected                                       *)
C13_Witness ==
  /\ AllIdle
  /\ hist.stage = "rejected"
  /\ \E p \in Workers : res[p] = LimitReached
  /\ ActiveLoanCount("u1") = LoanLimit
  /\ Len(txs) > LoanLimit
  /\ \E i \in 1..Len(txs) : txs[i].userId = "u1" /\ Back(i)

(* C14: ListOverdue by an admin or super-admin returns exactly the loans   *)
(* of the caller's school (of every school when the caller has none) that  *)
(* are active and whose dueDate is before now; it writes nothing; a        *)
(* returned loan is in no result, so a past-due active loan that is listed *)
(* is absent from every list issued after its Return.                      *)
InScope(a, i) == a.schoolId = NULL \/ txs[i].schoolId = a.schoolId

C14_OverdueExact ==
  [][ \A p \in Workers, a \in Tokens :
        (a.role \in {"admin", "super_admin"} /\ ListOverdue(p, a))
          => /\ listed' = { i \in 1..Len(txs) :
                              /\ InScope(a, i)
                              /\ txs[i].status = "active"
                              /\ txs[i].dueDate < now }
             /\ \A i \in 1..Len(txs) : txs[i].status = "returned" => i \notin listed'
             /\ res'[p].code = 200
             /\ txs' = txs /\ books' = books ]_vars

(* a list just answered that holds a past-due active loan and leaves out a *)
(* past-due loan that was returned                                         *)
C14_Witness ==
  /\ AllIdle
  /\ hist.stage = "listed"
  /\ \E i \in listed : Out(i) /\ txs[i].dueDate < now
  /\ \E i \in 1..Len(txs) : Back(i) /\ txs[i].dueDate < now /\ i \notin listed

(* C15: a Borrow whose dueDate is a date not after the current time is     *)
(* rejected at once with a client error (400; 403 or 404 when the book is  *)
(* foreign or missing); it inserts no loan and changes no counter.         *)
C15_DueDateInFuture ==
  [][ \A p \in Workers, a \in Tokens, body \in Bodies :
        (body.dueDate \in DueDates /\ body.dueDate <= now /\ BorrowStart(p, a, body))
          => /\ pc'[p] = "idle"
             /\ res'[p].code \in {400, 403, 404}
             /\ txs' = txs /\ books' = books ]_vars

(* C16: the last step of a Return raises the book's availableCopies by one *)
(* only when the result is at most totalCopies; otherwise it answers with  *)
(* an internal error (500) and leaves the counter as it is.                *)
C16_NoOverflow ==
  [][ \A p \in Workers :
        (pc[p] = "r_update" /\ ReturnUpdate(p))
          => LET b == txs[tid[p]].bookId
             IN  IF book[p].availableCopies + 1 <= books[b].totalCopies
                 THEN books'[b].availableCopies = book[p].availableCopies + 1
                 ELSE /\ books' = books
                      /\ res'[p].code = 500 ]_vars

(* C17: a Return by an actor of the loan's school who is neither the       *)
(* loan's user nor an admin or super-admin is answered 403 "Not            *)
(* authorized" and leaves loans and books as they are; an admin of the     *)
(* loan's school returning another user's active loan goes on to mark it   *)
(* returned, and every Return that ends with 200 leaves its loan returned  *)
(* with returnedAt set.                                                    *)
NotAuthorized == Response(403, "Not authorized", 0)

C17_OwnerOrAdmin ==
  [][ /\ \A p \in Workers, a \in Tokens, id \in 1..Len(txs) :
          (a.schoolId = txs[id].schoolId /\ txs[id].userId # a.userId
             /\ ReturnStart(p, a, id))
            => IF a.role \notin {"admin", "super_admin"}
               THEN /\ res'[p] = NotAuthorized
                    /\ pc'[p] = "idle"
                    /\ txs' = txs /\ books' = books
               ELSE txs[id].status = "active"
                      => pc'[p] = "r_mark" /\ tid'[p] = id /\ actor'[p] = a
      /\ \A p \in Workers :
          (pc[p] = "r_mark" /\ ReturnMark(p))
            => txs'[tid[p]].status = "returned" /\ txs'[tid[p]].returnedAt # NoDate
      /\ \A p \in Workers :
          (pc[p] \in {"r_getbook", "r_update"} /\ pc'[p] = "idle"
             /\ (ReturnGetBook(p) \/ ReturnUpdate(p)))
            => res'[p] = Response(200, "", tid[p]) ]_vars

(* an admin's Return has marked another user's loan returned, and a plain  *)
(* user has been refused on a loan of the admin that is still active       *)
C17_Witness ==
  /\ \E p \in Workers : res[p] = NotAuthorized
  /\ \E i \in 1..Len(txs) : txs[i].userId = "a1" /\ Out(i)
  /\ \E p \in Workers :
       /\ pc[p] = "r_update"
       /\ actor[p].role = "admin"
       /\ txs[tid[p]].userId # actor[p].userId
       /\ txs[tid[p]].schoolId = actor[p].schoolId
       /\ Back(tid[p])

(* C18: to a caller outside the owning school, a Borrow of another         *)
(* school's book is answered as the same Borrow of a book id that does not *)
(* exist would be in the same store, and a Return of another school's loan *)
(* as a Return of a loan id that does not exist.                           *)
C18_ForeignAsMissing ==
  [][ /\ \A p \in Workers, a \in Tokens, body \in Bodies :
          (ParseOk(body) /\ bookExists(body.bookId)
             /\ getBook(body.bookId).schoolId # a.schoolId
             /\ BorrowStart(p, a, body))
            => res'[p] = BorrowReject(a, [body EXCEPT !.bookId = MissingBook])
      /\ \A p \in Workers, a \in Tokens, id \in 1..Len(txs) :
          (txs[id].schoolId # a.schoolId /\ ReturnStart(p, a, id))
            => res'[p] = ReturnReject(a, Len(txs) + 1) ]_vars

(* C19: Borrow reports the first check that fails in the order: the book   *)
(* exists (404) and belongs to the actor's school (403), it has a copy     *)
(* (400 "No copies available"), the actor holds fewer than 5 active loans  *)
(* (400 "Maximum loan limit reached"); the limit is looked at only by a    *)
(* request that passed the checks on the book, so an actor at the limit    *)
(* gets the book's error for a missing, foreign or exhausted book.         *)
C19_CheckOrder ==
  [][ /\ \A p \in Workers, a \in Tokens, body \in Bodies :
          (ParseOk(body) /\ a.schoolId # NULL /\ BorrowStart(p, a, body))
            => IF ~bookExists(body.bookId)
                 THEN res'[p] = Response(404, "Book not found", 0)
               ELSE IF getBook(body.bookId).schoolId # a.schoolId
                 THEN res'[p] = Response(403, "This book belongs to a different school", 0)
               ELSE IF getBook(body.bookId).availableCopies <= 0
                 THEN res'[p] = Response(400, "No copies available", 0)
               ELSE pc'[p] = "b_loans" /\ res'[p] = NoRes
      /\ \A p \in Workers :
          (res'[p] = LimitReached /\ res[p] # LimitReached)
            => /\ pc[p] = "b_loans"
               /\ bookExists(val[p].bookId)
               /\ book[p].schoolId = actor[p].schoolId
               /\ book[p].availableCopies > 0
               /\ ActiveLoanCount(actor[p].userId) >= LoanLimit ]_vars

(* every actor of school s1 is at the limit and the last Borrow, of a book *)
(* of s1 with no copy left, was answered "No copies available"             *)
AllAtLimit ==
  \A a \in Tokens : a.schoolId = "s1" => ActiveLoanCount(a.userId) >= LoanLimit

C19_Witness ==
  /\ AllIdle
  /\ AllAtLimit
  /\ hist.stage = "rejected"
  /\ hist.book = "b2"
  /\ getBook("b2").schoolId = "s1"
  /\ getBook("b2").availableCopies = 0
  /\ \E p \in Workers : res[p] = Response(400, "No copies available", 0)

(* C20: an actor whose token names no school is answered with a client     *)
(* error on every Borrow, every creation of a book and every import of     *)
(* books, and the request inserts no loan and no book; no loan and no book *)
(* without a school is ever in the store.                                  *)
C20_NoSchoolNoRecord ==
  /\ [](/\ \A i \in 1..Len(txs) : txs[i].schoolId # NULL
        /\ \A b \in DOMAIN books : books[b].schoolId # NULL)
  /\ [][ \A p \in Workers, a \in Tokens :
          a.schoolId = NULL
            => /\ \A body \in Bodies :
                    BorrowStart(p, a, body)
                      => /\ pc'[p] = "idle" /\ res'[p].code \in 400..499
                         /\ txs' = txs /\ books' = books
               /\ \A body \in BookBodies :
                    CreateStart(p, a, body)
                      => /\ pc'[p] = "idle" /\ res'[p].code \in 400..499
                         /\ txs' = txs /\ books' = books
               /\ \A file \in Uploads :
                    ImportStart(p, a, file)
                      => /\ pc'[p] = "idle" /\ res'[p].code \in 400..499
                         /\ txs' = txs /\ books' = books ]_vars

(* a super-admin without a school has been refused the creation of a book  *)
(* in a store that took a book from an admin with a school                 *)
C20_Witness ==
  /\ AllIdle
  /\ \E p \in Workers :
       res[p] = Response(400, "Admin must be associated with a school to add books", 0)
  /\ \E b \in DOMAIN books : b \notin BookIds

(* C21: the row a Borrow inserts carries the school of the actor's token,  *)
(* whatever schoolId the body names, and that school is the school of the  *)
(* book's row at the moment of the insert.                                 *)
C21_LoanTenant ==
  [][ \A p \in Workers :
        (pc[p] = "b_insert" /\ BorrowInsert(p) /\ Len(txs') = Len(txs) + 1)
          => /\ txs'[Len(txs')].schoolId = actor[p].schoolId
             /\ txs'[Len(txs')].schoolId = getBook(txs'[Len(txs')].bookId).schoolId ]_vars

(* C22: the loans only grow, a loan is inserted only by a Borrow that ends *)
(* with 201, no loan is removed, and a loan's row is written at most once: *)
(* by a Return, while the loan is active and has no returnedAt.            *)
C22_LoanLifecycle ==
  [][ /\ Len(txs') >= Len(txs)
      /\ Len(txs') <= Len(txs) + 1
      /\ Len(txs') = Len(txs) + 1 => \E p \in Workers : pc[p] = "b_insert" /\ BorrowInsert(p)
      /\ \A p \in Workers :
           (pc[p] = "b_update" /\ pc'[p] = "idle") => res'[p].code = 201
      /\ \A i \in 1..Len(txs) :
           txs'[i] # txs[i]
             => /\ Out(i)
                /\ \E p \in Workers : pc[p] = "r_mark" /\ tid[p] = i /\ ReturnMark(p) ]_vars

(* C23: in every state every book's stored status is "borrowed" when its   *)
(* availableCopies is 0 and "available" when it is above 0.                *)
C23_StatusFollowsCounter ==
  \A b \in DOMAIN books :
    /\ books[b].availableCopies = 0 => books[b].status = "borrowed"
    /\ books[b].availableCopies > 0 => books[b].status = "available"

(* C24: a book row inserted by POST /api/books or by the CSV import has    *)
(* availableCopies = totalCopies and totalCopies >= 1.                     *)
C24_CreatedFull ==
  [][ \A b \in DOMAIN books' :
        b \notin DOMAIN books
          => /\ books'[b].availableCopies = books'[b].totalCopies
             /\ books'[b].totalCopies >= 1 ]_vars

(* C25: a PATCH of a book by an admin leaves the row with                  *)
(* 0 <= availableCopies <= totalCopies, by refusing the edit or by         *)
(* deriving the counter again.                                             *)
C25_EditKeepsRange ==
  [][ \A p \in Workers :
        (pc[p] = "e_update"
           /\ bookExists(bid[p])
           /\ getBook(bid[p]).availableCopies >= 0
           /\ getBook(bid[p]).availableCopies <= getBook(bid[p]).totalCopies
           /\ PatchUpdate(p))
          => /\ books'[bid[p]].availableCopies >= 0
             /\ books'[bid[p]].availableCopies <= books'[bid[p]].totalCopies ]_vars

(* C26: with requests run one at a time and no catalogue edit, between     *)
(* requests every book satisfies availableCopies + (loans on it whose      *)
(* status is not returned) = totalCopies.                                  *)
NotReturnedOn(b) == { i \in LoansOn(b) : txs[i].status # "returned" }

C26_LedgerBalance ==
  AllIdle =>
    \A b \in DOMAIN books :
      books[b].availableCopies + Cardinality(NotReturnedOn(b)) = books[b].totalCopies

(* C27: when the only two requests issued so far are a Borrow of a book    *)
(* and a Return of another loan on the same book, in flight together and   *)
(* both ended with success, the book's availableCopies is what it was      *)
(* before them: totalCopies less the loans the book had then, all active.  *)
BorrowAndReturnDone(p, q) ==
  /\ AllIdle
  /\ budget = MaxReqs - 2
  /\ p # q
  /\ res[p].code = 201
  /\ res[q].code = 200
  /\ res[q].id # res[p].id
  /\ txs[res[p].id].bookId = txs[res[q].id].bookId

C27_PairNeutral ==
  \A p, q \in Workers :
    BorrowAndReturnDone(p, q)
      => LET b == txs[res[p].id].bookId
         IN  books[b].availableCopies
               = books[b].totalCopies - (Cardinality(LoansOn(b)) - 1)

(* C28: under every interleaving of Borrow and Return requests, from books *)
(* stored as "available" with a copy available, a book's stored status is *)
(* "borrowed" exactly when its availableCopies is 0.                       *)
C28_BorrowedIffZero ==
  \A b \in BookIds :
    (books[b].status = "borrowed") <=> (books[b].availableCopies = 0)

(* b1 is out of copies and stored as borrowed after one of two Borrows     *)
(* that read it together; the other Borrow and a Return on b1 are about to *)
(* write the row                                                           *)
C28_Witness ==
  /\ books["b1"].availableCopies = 0
  /\ books["b1"].status = "borrowed"
  /\ \E p, q \in Workers :
       /\ pc[p] = "b_update" /\ val[p].bookId = "b1"
       /\ pc[q] = "r_update" /\ txs[tid[q]].bookId = "b1"

(* C29: a loan's returnedAt, once set, is never written again, and a       *)
(* Return's write changes only status and returnedAt of its own loan.      *)
C29_ReturnedAtFrozen ==
  [][ /\ \A i \in 1..Len(txs) :
           txs[i].returnedAt # NoDate => txs'[i].returnedAt = txs[i].returnedAt
      /\ \A p \in Workers :
           (pc[p] = "r_mark" /\ ReturnMark(p))
             => /\ Len(txs') = Len(txs)
                /\ \A j \in 1..Len(txs) : j # tid[p] => txs'[j] = txs[j]
                /\ txs'[tid[p]] = [txs[tid[p]] EXCEPT !.status = txs'[tid[p]].status,
                                                       !.returnedAt = txs'[tid[p]].returnedAt] ]_vars

====
